---- MODULE Spec2Model ----
(***************************************************************************)
(* Model of include/extractor/guidance/toolkit.hpp: the turn-guidance      *)
(* toolkit (representative coordinate of an edge, name-change detection,   *)
(* road class priorities, turn mirroring, roundabout classification and    *)
(* lane string trimming).  Every function of the header is a pure          *)
(* function; each is modelled as an operator computed the way the code     *)
(* computes it, and applied by an action to inputs drawn in Init.          *)
(***************************************************************************)
EXTENDS Integers, Sequences, FiniteSets, TLC

VARIABLES
    edge,      \* arguments of getRepresentativeCoordinate
    walk,      \* locals of getCoordinateFromCompressedRange and its result
    names,     \* arguments of requiresNameAnnounced
    announce,  \* values computed by requiresNameAnnounced
    classes,   \* arguments of canBeSeenAsFork
    fork,      \* result of canBeSeenAsFork
    road,      \* ConnectedRoad handed to mirror, and the mirrored road
    roundabout,\* results of hasRoundaboutType / entersRoundabout / leavesRoundabout
    lanes,     \* arguments of trimLaneString
    trimmed    \* what trimLaneString read, erased and returned

vars == <<edge, walk, names, announce, classes, fork, road, roundabout, lanes, trimmed>>

\* the value of a result variable before the call
None == [called |-> FALSE]

Min(a, b) == IF a < b THEN a ELSE b

(***************************************************************************)
(* Road Class Ranker: getPriority, canBeSeenAsFork                         *)
(***************************************************************************)

\* the road_priority table, indexed by static_cast<int>(road_class)
road_priority == <<10, 0, 10, 2, 10, 4, 10, 6, 10, 8, 10, 11, 10, 12, 10, 14>>

FunctionalRoadClass == 0 .. (Len(road_priority) - 1)

getPriority(road_class) == road_priority[road_class + 1]

\* std::abs on int
abs(x) == IF x < 0 THEN 0 - x ELSE x

canBeSeenAsFork_NoAbs(first, second) == getPriority(first) - getPriority(second) <= 1

canBeSeenAsFork(first, second) == abs(getPriority(first) - getPriority(second)) <= 1

IdleClasses == [first |-> 0, second |-> 0]

InitClasses ==
    /\ classes \in [first : FunctionalRoadClass, second : FunctionalRoadClass]
    /\ fork = None

\* one call canBeSeenAsFork(first, second), and the call with the arguments swapped
CallCanBeSeenAsFork ==
    /\ ~fork.called
    /\ fork' = [called |-> TRUE,
                forward |-> canBeSeenAsFork(classes.first, classes.second),
                swapped |-> canBeSeenAsFork(classes.second, classes.first)]
    /\ UNCHANGED <<edge, walk, names, announce, classes, road, roundabout, lanes, trimmed>>

(***************************************************************************)
(* Turn Symmetry and Roundabout Classifier                                 *)
(***************************************************************************)

\* DirectionModifier::Enum, in the order of its ordinals 0 .. 7
DirectionModifier ==
    <<"UTurn", "SharpRight", "Right", "SlightRight",
      "Straight", "SlightLeft", "Left", "SharpLeft">>

ModifierOrdinal(m) == CHOOSE i \in 1 .. Len(DirectionModifier) : DirectionModifier[i] = m

\* the table of mirror(), indexed by the ordinal of the modifier
mirrored_modifiers ==
    <<"UTurn", "SharpLeft", "Left", "SlightLeft",
      "Straight", "SlightRight", "Right", "SharpRight">>

\* the 13 valid_types of hasRoundaboutType
valid_types ==
    <<"EnterRoundabout", "EnterAndExitRoundabout", "EnterRotary", "EnterAndExitRotary",
      "EnterRoundaboutIntersection", "EnterAndExitRoundaboutIntersection",
      "EnterRoundaboutAtExit", "ExitRoundabout", "EnterRotaryAtExit", "ExitRotary",
      "EnterRoundaboutIntersectionAtExit", "ExitRoundaboutIntersection",
      "StayOnRoundabout">>

\* the turn types that are no roundabout type
OtherTurnTypes ==
    {"Invalid", "NewName", "Continue", "Turn", "Merge", "OnRamp", "OffRamp", "Fork",
     "EndOfRoad", "Notification", "UseLane", "NoTurn", "Suppressed", "Sliproad"}

TurnType == {valid_types[i] : i \in 1 .. Len(valid_types)} \cup OtherTurnTypes

\* util::guidance::angularDeviation: the deviation of two angles on the circle
angularDeviation(angle, from) ==
    LET deviation == abs(angle - from) IN Min(360 - deviation, deviation)

\* angles are whole degrees: a deviation above epsilon is a deviation above 0
mirror_Unconditional(r) ==
    [r EXCEPT !.angle = 360 - r.angle,
              !.direction_modifier = mirrored_modifiers[ModifierOrdinal(r.direction_modifier)]]

mirror(r) ==
    IF angularDeviation(r.angle, 0) > 0
    THEN [r EXCEPT !.angle = 360 - r.angle,
                   !.direction_modifier =
                       mirrored_modifiers[ModifierOrdinal(r.direction_modifier)]]
    ELSE r

hasRoundaboutType_ShortEnd(instruction) ==
    \E i \in 1 .. 11 : valid_types[i] = instruction.type

hasRoundaboutType(instruction) ==
    \E i \in 1 .. 13 : valid_types[i] = instruction.type

entersRoundabout(instruction) ==
    \/ instruction.type = "EnterRoundabout"
    \/ instruction.type = "EnterRotary"
    \/ instruction.type = "EnterRoundaboutIntersection"
    \/ instruction.type = "EnterRoundaboutAtExit"
    \/ instruction.type = "EnterRotaryAtExit"
    \/ instruction.type = "EnterRoundaboutIntersectionAtExit"
    \/ instruction.type = "EnterAndExitRoundabout"
    \/ instruction.type = "EnterAndExitRotary"
    \/ instruction.type = "EnterAndExitRotary"

leavesRoundabout(instruction) ==
    \/ instruction.type = "ExitRoundabout"
    \/ instruction.type = "ExitRotary"
    \/ instruction.type = "ExitRoundaboutIntersection"
    \/ instruction.type = "EnterAndExitRoundabout"
    \/ instruction.type = "EnterAndExitRotary"
    \/ instruction.type = "EnterAndExitRoundaboutIntersection"

\* how often one road is mirrored in a row
MaxMirrors == 2

ConnectedRoad ==
    [angle : 0 .. 360,
     type : TurnType,
     direction_modifier : {DirectionModifier[i] : i \in 1 .. Len(DirectionModifier)}]

IdleRoad ==
    [original |-> [angle |-> 0, type |-> "Invalid", direction_modifier |-> "UTurn"],
     current |-> [angle |-> 0, type |-> "Invalid", direction_modifier |-> "UTurn"],
     previous |-> [angle |-> 0, type |-> "Invalid", direction_modifier |-> "UTurn"],
     mirrors |-> 0]

InitRoad ==
    /\ \E r \in ConnectedRoad :
          road = [original |-> r, current |-> r, previous |-> r, mirrors |-> 0]
    /\ roundabout = None

\* road = mirror(road)
CallMirror ==
    /\ road.mirrors < MaxMirrors
    /\ road' = [road EXCEPT !.previous = road.current,
                            !.current = mirror(road.current),
                            !.mirrors = road.mirrors + 1]
    /\ UNCHANGED <<edge, walk, names, announce, classes, fork, roundabout, lanes, trimmed>>

\* the three roundabout predicates on the road's turn instruction
CallRoundaboutPredicates ==
    /\ ~roundabout.called
    /\ roundabout' = [called |-> TRUE,
                      has |-> hasRoundaboutType(road.current),
                      enters |-> entersRoundabout(road.current),
                      leaves |-> leavesRoundabout(road.current)]
    /\ UNCHANGED <<edge, walk, names, announce, classes, fork, road, lanes, trimmed>>

(***************************************************************************)
(* Lane String Trimmer: trimLaneString                                     *)
(* A std::string is a sequence of characters; C++ position i (from 0) is   *)
(* element i + 1.  operator[] at position size() yields the terminator.    *)
(***************************************************************************)

NUL == "\\0"

LaneChars == {"|", "&", "l"}

\* longest lane string, and largest count_left / count_right
MaxLaneLen == 4
MaxLaneCount == 5

LaneStrings == UNION {[1 .. n -> LaneChars] : n \in 0 .. MaxLaneLen}

\* lane_string[i]: defined by the library up to i = size(), undefined beyond
LaneAt(lane_string, i) ==
    IF i < Len(lane_string) THEN lane_string[i + 1]
    ELSE IF i = Len(lane_string) THEN NUL
    ELSE "undefined"

IsPipe(c) == c = "|" \/ c = "&"

\* the positions the left loop reads: it stops at the first character that is
\* neither '|' nor '&'
LeftReads(lane_string, count_left) ==
    {i \in 0 .. (count_left - 1) :
        \A j \in 0 .. (i - 1) : IsPipe(LaneAt(lane_string, j))}

LeftSane(lane_string, count_left) ==
    /\ count_left < Len(lane_string)
    /\ \A i \in LeftReads(lane_string, count_left) : IsPipe(LaneAt(lane_string, i))

\* the reverse positions (0 is the last character) the right loop reads: it stops
\* at rend() or after count_right characters, or at the first non-pipe
RightReads(lane_string, count_right) ==
    {k \in 0 .. (Min(count_right, Len(lane_string)) - 1) :
        \A j \in 0 .. (k - 1) : IsPipe(lane_string[Len(lane_string) - j])}

RightSane_NoSizeCheck(lane_string, count_right) ==
    \A k \in RightReads(lane_string, count_right) :
        IsPipe(lane_string[Len(lane_string) - k])

RightSane(lane_string, count_right) ==
    /\ count_right < Len(lane_string)
    /\ \A k \in RightReads(lane_string, count_right) :
          IsPipe(lane_string[Len(lane_string) - k])

\* lane_string.erase(begin(), begin() + count_left)
EraseLeft_OneShort(lane_string, count_left) ==
    SubSeq(lane_string, count_left, Len(lane_string))

EraseLeft(lane_string, count_left) ==
    SubSeq(lane_string, count_left + 1, Len(lane_string))

\* lane_string.resize(size() - count_right)
ResizeRight_OneShort(lane_string, count_right) ==
    SubSeq(lane_string, 1, Len(lane_string) - count_right - 1)

ResizeRight(lane_string, count_right) ==
    SubSeq(lane_string, 1, Len(lane_string) - count_right)

\* the string after the if (count_left) block
TrimLeft(lane_string, count_left) ==
    IF count_left # 0 /\ LeftSane(lane_string, count_left)
    THEN EraseLeft(lane_string, count_left)
    ELSE lane_string

\* the string after the if (count_right) block
TrimRight(lane_string, count_right) ==
    IF count_right # 0 /\ RightSane(lane_string, count_right)
    THEN ResizeRight(lane_string, count_right)
    ELSE lane_string

trimLaneString(lane_string, count_left, count_right) ==
    TrimRight(TrimLeft(lane_string, count_left), count_right)

IdleLanes == [lane_string |-> <<>>, count_left |-> 0, count_right |-> 0]

\* the counts are numbers of restricted lanes: they are not negative
InitLanes ==
    /\ lanes \in [lane_string : LaneStrings,
                  count_left : 0 .. MaxLaneCount,
                  count_right : 0 .. MaxLaneCount]
    /\ trimmed = None

\* one call trimLaneString(lane_string, count_left, count_right)
CallTrimLaneString ==
    /\ ~trimmed.called
    /\ LET after_left == TrimLeft(lanes.lane_string, lanes.count_left)
       IN trimmed' =
             [called |-> TRUE,
              left_reads |-> IF lanes.count_left # 0
                             THEN LeftReads(lanes.lane_string, lanes.count_left)
                             ELSE {},
              left_erased |-> IF lanes.count_left # 0
                                 /\ LeftSane(lanes.lane_string, lanes.count_left)
                              THEN lanes.count_left ELSE 0,
              after_left |-> after_left,
              right_reads |-> IF lanes.count_right # 0
                              THEN RightReads(after_left, lanes.count_right)
                              ELSE {},
              right_erased |-> IF lanes.count_right # 0
                                  /\ RightSane(after_left, lanes.count_right)
                               THEN lanes.count_right ELSE 0,
              result |-> trimLaneString(lanes.lane_string, lanes.count_left,
                                        lanes.count_right)]
    /\ UNCHANGED <<edge, walk, names, announce, classes, fork, road, roundabout, lanes>>

(***************************************************************************)
(* Suffix/Name Matcher: getPrefixAndSuffix, requiresNameAnnounced          *)
(***************************************************************************)

NameChars == {"a", "B", " ", "(", ")"}

\* longest name handed to requiresNameAnnounced
MaxNameLen == 3

NameStrings == UNION {[1 .. n -> NameChars] : n \in 0 .. MaxNameLen}

\* the lower-cased tokens a suffix table may hold
SuffixTokens == {<<"a">>, <<"b">>}

\* std::string::npos, larger than every position and every length
npos == 1000000

\* data.find_first_of(c) / data.find_last_of(c): a position from 0, or npos
find_first_of(data, c) ==
    IF \E i \in 1 .. Len(data) : data[i] = c
    THEN (CHOOSE i \in 1 .. Len(data) :
             data[i] = c /\ \A j \in 1 .. (i - 1) : data[j] # c) - 1
    ELSE npos

find_last_of(data, c) ==
    IF \E i \in 1 .. Len(data) : data[i] = c
    THEN (CHOOSE i \in 1 .. Len(data) :
             data[i] = c /\ \A j \in (i + 1) .. Len(data) : data[j] # c) - 1
    ELSE npos

\* data.substr(pos, count): at most count characters from position pos
substr(data, pos, count) ==
    SubSeq(data, pos + 1, pos + Min(count, Len(data) - pos))

\* an unsigned count: a difference below zero wraps to a count beyond every length
size_t(n) == IF n < 0 THEN npos ELSE n

\* boost::to_lower
ToLowerChar(c) == IF c = "A" THEN "a" ELSE IF c = "B" THEN "b" ELSE c

to_lower(data) == [i \in 1 .. Len(data) |-> ToLowerChar(data[i])]

getPrefixAndSuffix(data) ==
    LET suffix_pos == find_last_of(data, " ")
        prefix_pos == find_first_of(data, " ")
    IN  IF suffix_pos = npos
        THEN [first |-> <<>>, second |-> <<>>]
        ELSE [first |-> to_lower(substr(data, 0, prefix_pos)),
              second |-> to_lower(substr(data, suffix_pos + 1, npos))]

\* suffix_table.isSuffix(str)
isSuffix(suffix_table, str) == str \in suffix_table

\* the lambda checkTable of checkForPrefixOrSuffixChange
checkTable(suffix_table, str) == str = <<>> \/ isSuffix(suffix_table, str)

\* first.compare(pos1, count1, second, pos2, count2) == 0
compare_equal(first, pos1, count1, second, pos2, count2) ==
    substr(first, pos1, count1) = substr(second, pos2, count2)

boost_starts_with(input, test) ==
    Len(test) <= Len(input) /\ SubSeq(input, 1, Len(test)) = test

\* haystack.find(needle) != npos
contains(haystack, needle) ==
    \E p \in 0 .. (Len(haystack) - Len(needle)) :
        SubSeq(haystack, p + 1, p + Len(needle)) = needle

\* the lambda split: "{name} ({ref})" -> name, ref
split(name) ==
    LET ref_begin == find_first_of(name, "(")
        ref_end == find_first_of(name, ")")
    IN  IF ref_begin # npos
        THEN [name |-> IF ref_begin # 0 THEN substr(name, 0, ref_begin - 1) ELSE <<>>,
              ref |-> substr(name, ref_begin + 1, size_t(ref_end - ref_begin - 1))]
        ELSE [name |-> name, ref |-> <<>>]

\* the lambda is_prefix_change of checkForPrefixOrSuffixChange
is_prefix_change(first, second, suffix_table) ==
    LET first_prefix_and_suffixes == getPrefixAndSuffix(first)
        second_prefix_and_suffixes == getPrefixAndSuffix(second)
    IN  IF ~checkTable(suffix_table, first_prefix_and_suffixes.first) THEN FALSE
        ELSE IF ~checkTable(suffix_table, first_prefix_and_suffixes.first) THEN FALSE
        ELSE compare_equal(first, Len(first_prefix_and_suffixes.first), npos,
                           second, Len(second_prefix_and_suffixes.first), npos)

\* the lambda is_suffix_change of checkForPrefixOrSuffixChange
is_suffix_change(first, second, suffix_table) ==
    LET first_prefix_and_suffixes == getPrefixAndSuffix(first)
        second_prefix_and_suffixes == getPrefixAndSuffix(second)
    IN  IF ~checkTable(suffix_table, first_prefix_and_suffixes.second) THEN FALSE
        ELSE IF ~checkTable(suffix_table, first_prefix_and_suffixes.second) THEN FALSE
        ELSE compare_equal(first, 0, Len(first) - Len(first_prefix_and_suffixes.second),
                           second, 0, Len(second) - Len(second_prefix_and_suffixes.second))

checkForPrefixOrSuffixChange(first, second, suffix_table) ==
    is_prefix_change(first, second, suffix_table)
        \/ is_suffix_change(first, second, suffix_table)

\* everything requiresNameAnnounced computes; .result is what it returns
requiresNameAnnounced(from, to, suffix_table) ==
    IF from = <<>> /\ to # <<>>
    THEN [called |-> TRUE, early |-> TRUE, result |-> TRUE]
    ELSE
    LET from_name == split(from).name
        from_ref == split(from).ref
        to_name == split(to).name
        to_ref == split(to).ref
        names_are_empty == from_name = <<>> /\ to_name = <<>>
        name_is_contained ==
            boost_starts_with(from_name, to_name) \/ boost_starts_with(to_name, from_name)
        suffix_change == checkForPrefixOrSuffixChange(from_name, to_name, suffix_table)
        names_are_equal == from_name = to_name \/ name_is_contained \/ suffix_change
        name_is_removed == from_name # <<>> /\ to_name = <<>>
        refs_are_empty == from_ref = <<>> /\ to_ref = <<>>
        ref_is_contained ==
            \/ from_ref = <<>>
            \/ to_ref = <<>>
            \/ contains(from_ref, to_ref)
            \/ contains(to_ref, from_ref)
        ref_is_removed == from_ref # <<>> /\ to_ref = <<>>
        obvious_change ==
            \/ names_are_empty /\ refs_are_empty
            \/ names_are_equal /\ ref_is_contained
            \/ names_are_equal /\ refs_are_empty
            \/ ref_is_contained /\ name_is_removed
            \/ names_are_equal /\ ref_is_removed
            \/ suffix_change
    IN  [called |-> TRUE,
         early |-> FALSE,
         from_name |-> from_name,
         to_name |-> to_name,
         is_prefix_change |-> is_prefix_change(from_name, to_name, suffix_table),
         is_suffix_change |-> is_suffix_change(from_name, to_name, suffix_table),
         result |-> ~obvious_change]

IdleNames == [from |-> <<>>, to |-> <<>>, suffix_table |-> {}]

InitNames ==
    /\ names \in [from : NameStrings, to : NameStrings, suffix_table : SUBSET SuffixTokens]
    /\ announce = None

\* one call requiresNameAnnounced(from, to, suffix_table)
CallRequiresNameAnnounced ==
    /\ ~announce.called
    /\ announce' = requiresNameAnnounced(names.from, names.to, names.suffix_table)
    /\ UNCHANGED <<edge, walk, names, classes, fork, road, roundabout, lanes, trimmed>>

(***************************************************************************)
(* Geometry Interpolator: getCoordinateFromCompressedRange,                *)
(* getRepresentativeCoordinate.  The nodes of the road network lie on one  *)
(* meridian, NodeSpacing metres apart, so that the great-circle distance   *)
(* of two coordinates is the difference of their positions in metres.      *)
(***************************************************************************)

DESIRED_SEGMENT_LENGTH == 10

\* node ids are 0 .. MaxNode; a compressed edge holds at most MaxGeometry nodes
MaxNode == 6
MaxGeometry == 2
NodeSpacing == 2

NodeID == 0 .. MaxNode

\* query_nodes[node_id], reduced to the coordinate {node.lon, node.lat}
query_nodes(node_id) == node_id * NodeSpacing

extractCoordinateFromNode(node_id) == query_nodes(node_id)

\* util::coordinate_calculation::haversineDistance
haversineDistance(first_coordinate, second_coordinate) ==
    abs(first_coordinate - second_coordinate)

\* the factor of getFactor as a fraction num / den, clamped to [0, 1] as by
\* std::max(0., std::min(missing_distance / segment_length, 1.0))
getFactor(first_distance, second_distance) ==
    LET segment_length == second_distance - first_distance
        missing_distance == DESIRED_SEGMENT_LENGTH - first_distance
    IN  IF segment_length = 0
        THEN \* a division by zero: +inf clamps to 1, -inf and NaN to 0
             IF missing_distance > 0 THEN [num |-> 1, den |-> 1] ELSE [num |-> 0, den |-> 1]
        ELSE IF missing_distance * segment_length < 0 THEN [num |-> 0, den |-> 1]
        ELSE IF abs(missing_distance) > abs(segment_length) THEN [num |-> 1, den |-> 1]
        ELSE [num |-> abs(missing_distance), den |-> abs(segment_length)]

\* util::coordinate_calculation::interpolateLinear(factor, from, to)
interpolateLinear(factor, from, to) ==
    from + ((factor.num * (to - from)) \div factor.den)

\* the test of both "reached point where coordinates switch between" branches
ReachedTarget_Current(distance_to_current_coordinate, distance_to_next_coordinate) ==
    distance_to_current_coordinate >= DESIRED_SEGMENT_LENGTH

ReachedTarget_Flipped(distance_to_current_coordinate, distance_to_next_coordinate) ==
    distance_to_next_coordinate <= DESIRED_SEGMENT_LENGTH

ReachedTarget(distance_to_current_coordinate, distance_to_next_coordinate) ==
    distance_to_next_coordinate >= DESIRED_SEGMENT_LENGTH

Geometries == UNION {[1 .. n -> NodeID] : n \in 0 .. MaxGeometry}

\* the node the iterator points at after k - 1 increments, from begin() or rbegin()
GeometryAt(k) ==
    IF edge.traverse_in_reverse
    THEN edge.geometry[Len(edge.geometry) - k + 1]
    ELSE edge.geometry[k]

IdleEdge ==
    [from_node |-> 0, to_node |-> 0, has_entry |-> FALSE, geometry |-> <<>>,
     traverse_in_reverse |-> FALSE]

IdleWalk == [pc |-> "idle"]

InitEdge ==
    /\ edge \in [from_node : NodeID, to_node : NodeID, has_entry : BOOLEAN,
                 geometry : Geometries, traverse_in_reverse : BOOLEAN]
    \* an edge without an entry in the compressed edge container has no bucket
    /\ edge.has_entry \/ edge.geometry = <<>>
    /\ walk = [pc |-> "call"]

\* getRepresentativeCoordinate up to the call of getCoordinateFromCompressedRange
CallGetRepresentativeCoordinate ==
    /\ walk.pc = "call"
    /\ IF ~edge.has_entry
       THEN LET far == extractCoordinateFromNode(
                           IF edge.traverse_in_reverse THEN edge.from_node
                           ELSE edge.to_node)
                base == extractCoordinateFromNode(
                            IF edge.traverse_in_reverse THEN edge.to_node
                            ELSE edge.from_node)
            IN walk' = [pc |-> "done",
                        segment_start |-> base,
                        current_coordinate |-> base,
                        distance_to_current_coordinate |-> 0,
                        distance_to_next_coordinate |-> haversineDistance(base, far),
                        getFactor_calls |-> <<>>,
                        result |-> far]
       ELSE LET base_node_id == IF edge.traverse_in_reverse THEN edge.to_node
                                ELSE edge.from_node
                final_node == IF edge.traverse_in_reverse THEN edge.from_node
                              ELSE edge.to_node
            IN walk' = [pc |-> "loop",
                        itr |-> 1,
                        current_coordinate |-> extractCoordinateFromNode(base_node_id),
                        final_coordinate |-> extractCoordinateFromNode(final_node),
                        distance_to_current_coordinate |-> 0,
                        distance_to_next_coordinate |-> 0,
                        getFactor_calls |-> <<>>]
    /\ UNCHANGED <<edge, names, announce, classes, fork, road, roundabout, lanes, trimmed>>

\* one iteration of the for loop over the compressed geometry
LoopIteration ==
    /\ walk.pc = "loop"
    /\ walk.itr <= Len(edge.geometry)
    /\ LET next_coordinate == extractCoordinateFromNode(GeometryAt(walk.itr))
           next_distance == walk.distance_to_current_coordinate
                              + haversineDistance(walk.current_coordinate, next_coordinate)
       IN  IF ReachedTarget(walk.distance_to_current_coordinate, next_distance)
           THEN walk' = [pc |-> "done",
                         segment_start |-> walk.current_coordinate,
                         current_coordinate |-> walk.current_coordinate,
                         distance_to_current_coordinate |->
                             walk.distance_to_current_coordinate,
                         distance_to_next_coordinate |-> next_distance,
                         getFactor_calls |->
                             Append(walk.getFactor_calls,
                                    <<walk.distance_to_current_coordinate, next_distance>>),
                         result |-> interpolateLinear(
                                        getFactor(walk.distance_to_current_coordinate,
                                                  next_distance),
                                        walk.current_coordinate, next_coordinate)]
           ELSE walk' = [walk EXCEPT !.itr = walk.itr + 1,
                                     !.current_coordinate = next_coordinate,
                                     !.distance_to_current_coordinate = next_distance,
                                     !.distance_to_next_coordinate = next_distance]
    /\ UNCHANGED <<edge, names, announce, classes, fork, road, roundabout, lanes, trimmed>>

\* the code after the loop: the segment to final_coordinate
AfterLoop ==
    /\ walk.pc = "loop"
    /\ walk.itr > Len(edge.geometry)
    /\ LET next_distance == walk.distance_to_current_coordinate
                              + haversineDistance(walk.current_coordinate,
                                                  walk.final_coordinate)
           interpolate ==
               /\ walk.distance_to_current_coordinate < DESIRED_SEGMENT_LENGTH
               /\ ReachedTarget(walk.distance_to_current_coordinate, next_distance)
       IN  walk' = [pc |-> "done",
                    segment_start |-> walk.current_coordinate,
                    current_coordinate |-> walk.current_coordinate,
                    distance_to_current_coordinate |-> walk.distance_to_current_coordinate,
                    distance_to_next_coordinate |-> next_distance,
                    getFactor_calls |->
                        IF interpolate
                        THEN Append(walk.getFactor_calls,
                                    <<walk.distance_to_current_coordinate, next_distance>>)
                        ELSE walk.getFactor_calls,
                    result |->
                        IF interpolate
                        THEN interpolateLinear(
                                 getFactor(walk.distance_to_current_coordinate,
                                           next_distance),
                                 walk.current_coordinate, walk.final_coordinate)
                        ELSE walk.final_coordinate]
    /\ UNCHANGED <<edge, names, announce, classes, fork, road, roundabout, lanes, trimmed>>

(***************************************************************************)
(* Specifications: one per component, the other components idle            *)
(***************************************************************************)

InitRank ==
    /\ InitClasses
    /\ edge = IdleEdge /\ walk = IdleWalk
    /\ names = IdleNames /\ announce = None
    /\ road = IdleRoad /\ roundabout = None
    /\ lanes = IdleLanes /\ trimmed = None

SpecRank == InitRank /\ [][CallCanBeSeenAsFork]_vars

InitTurn ==
    /\ InitRoad
    /\ edge = IdleEdge /\ walk = IdleWalk
    /\ names = IdleNames /\ announce = None
    /\ classes = IdleClasses /\ fork = None
    /\ lanes = IdleLanes /\ trimmed = None

NextTurn == CallMirror \/ CallRoundaboutPredicates

SpecTurn == InitTurn /\ [][NextTurn]_vars

InitLane ==
    /\ InitLanes
    /\ edge = IdleEdge /\ walk = IdleWalk
    /\ names = IdleNames /\ announce = None
    /\ classes = IdleClasses /\ fork = None
    /\ road = IdleRoad /\ roundabout = None

SpecLane == InitLane /\ [][CallTrimLaneString]_vars

InitName ==
    /\ InitNames
    /\ edge = IdleEdge /\ walk = IdleWalk
    /\ classes = IdleClasses /\ fork = None
    /\ road = IdleRoad /\ roundabout = None
    /\ lanes = IdleLanes /\ trimmed = None

SpecName == InitName /\ [][CallRequiresNameAnnounced]_vars

InitGeometry ==
    /\ InitEdge
    /\ names = IdleNames /\ announce = None
    /\ classes = IdleClasses /\ fork = None
    /\ road = IdleRoad /\ roundabout = None
    /\ lanes = IdleLanes /\ trimmed = None

NextGeometry == CallGetRepresentativeCoordinate \/ LoopIteration \/ AfterLoop

SpecGeometry == InitGeometry /\ [][NextGeometry]_vars

(***************************************************************************)
(* Properties                                                              *)
(***************************************************************************)

EnterAndExitTypes ==
    {"EnterAndExitRoundabout", "EnterAndExitRotary", "EnterAndExitRoundaboutIntersection"}

\* C1: every instruction with one of the three combined enter-and-exit turn types
\* is reported both by entersRoundabout and by leavesRoundabout.
C1_EnterAndExitCountsAsBoth ==
    (roundabout.called /\ road.current.type \in EnterAndExitTypes)
        => (roundabout.enters /\ roundabout.leaves)

\* the stripped tokens of a suffix (prefix) change both qualify
SuffixTokensQualify ==
    /\ checkTable(names.suffix_table, getPrefixAndSuffix(announce.from_name).second)
    /\ checkTable(names.suffix_table, getPrefixAndSuffix(announce.to_name).second)

PrefixTokensQualify ==
    /\ checkTable(names.suffix_table, getPrefixAndSuffix(announce.from_name).first)
    /\ checkTable(names.suffix_table, getPrefixAndSuffix(announce.to_name).first)

\* C2: a name change is classified as a suffix (prefix) change only if the stripped
\* last (first) token of the from-name and that of the to-name are each empty or in
\* the suffix table.
C2_BothTokensQualify ==
    (announce.called /\ ~announce.early)
        => /\ announce.is_suffix_change => SuffixTokensQualify
           /\ announce.is_prefix_change => PrefixTokensQualify

AllPipes(str) == \A i \in 1 .. Len(str) : str[i] \in {"|", "&"}

\* C3, as claimed: with count_left > 0 up to and including the length, all-placeholder
\* first count_left characters are removed exactly; likewise the last count_right
\* characters of the string after left trimming.
C3_TrimsUpToLength ==
    trimmed.called =>
        /\ ( /\ lanes.count_left > 0
             /\ lanes.count_left <= Len(lanes.lane_string)
             /\ AllPipes(SubSeq(lanes.lane_string, 1, lanes.count_left)) )
           => trimmed.after_left
                = SubSeq(lanes.lane_string, lanes.count_left + 1, Len(lanes.lane_string))
        /\ ( /\ lanes.count_right > 0
             /\ lanes.count_right <= Len(trimmed.after_left)
             /\ AllPipes(SubSeq(trimmed.after_left,
                                Len(trimmed.after_left) - lanes.count_right + 1,
                                Len(trimmed.after_left))) )
           => trimmed.result
                = SubSeq(trimmed.after_left, 1, Len(trimmed.after_left) - lanes.count_right)

\* C3, amended: the same for counts strictly below the length of the string being
\* trimmed; a count equal to that length leaves the side untrimmed.
C3_TrimsBelowLength ==
    trimmed.called =>
        /\ ( /\ lanes.count_left > 0
             /\ lanes.count_left < Len(lanes.lane_string)
             /\ AllPipes(SubSeq(lanes.lane_string, 1, lanes.count_left)) )
           => trimmed.after_left
                = SubSeq(lanes.lane_string, lanes.count_left + 1, Len(lanes.lane_string))
        /\ ( /\ lanes.count_right > 0
             /\ lanes.count_right < Len(trimmed.after_left)
             /\ AllPipes(SubSeq(trimmed.after_left,
                                Len(trimmed.after_left) - lanes.count_right + 1,
                                Len(trimmed.after_left))) )
           => trimmed.result
                = SubSeq(trimmed.after_left, 1, Len(trimmed.after_left) - lanes.count_right)
        /\ (lanes.count_left > 0 /\ lanes.count_left = Len(lanes.lane_string))
           => trimmed.after_left = lanes.lane_string
        /\ (lanes.count_right > 0 /\ lanes.count_right = Len(trimmed.after_left))
           => trimmed.result = trimmed.after_left

C3_Witness ==
    /\ trimmed.called
    /\ lanes.count_left = 2 /\ lanes.count_right = 1
    /\ lanes.lane_string = <<"|", "&", "l", "|">>
    /\ trimmed.result = <<"l">>

\* a side is malformed for a count: the range holds a character that is no
\* placeholder, or extends past the string
Malformed(str, count, from_left) ==
    \/ count > Len(str)
    \/ \E i \in 1 .. Min(count, Len(str)) :
          ~IsPipe(IF from_left THEN str[i] ELSE str[Len(str) - i + 1])

\* a malformed side is returned untrimmed, and nothing outside the string is erased
MalformedSideUntrimmed ==
    /\ (lanes.count_left > 0 /\ Malformed(lanes.lane_string, lanes.count_left, TRUE))
       => trimmed.after_left = lanes.lane_string
    /\ (lanes.count_right > 0 /\ Malformed(trimmed.after_left, lanes.count_right, FALSE))
       => trimmed.result = trimmed.after_left
    /\ trimmed.left_erased <= Len(lanes.lane_string)
    /\ trimmed.right_erased <= Len(trimmed.after_left)

\* C4, as claimed: a malformed side is returned untrimmed, and every position read
\* or erased is a position of the string.
C4_NoReadOutsideString ==
    trimmed.called =>
        /\ MalformedSideUntrimmed
        /\ \A i \in trimmed.left_reads : i < Len(lanes.lane_string)
        /\ \A k \in trimmed.right_reads : k < Len(trimmed.after_left)

\* C4, amended: a malformed side is returned untrimmed and nothing outside the string
\* is erased; the left scan reads no position beyond size(), and reads position
\* size() itself (the terminator, which operator[] defines) only when count_left
\* exceeds the length of an all-placeholder string; the right scan stays inside.
C4_ReadsAtMostTerminator ==
    trimmed.called =>
        /\ MalformedSideUntrimmed
        /\ \A i \in trimmed.left_reads :
              /\ i <= Len(lanes.lane_string)
              /\ LaneAt(lanes.lane_string, i) # "undefined"
              /\ i = Len(lanes.lane_string)
                 => (lanes.count_left > Len(lanes.lane_string) /\ AllPipes(lanes.lane_string))
        /\ \A k \in trimmed.right_reads : k < Len(trimmed.after_left)

C4_Witness ==
    /\ trimmed.called
    /\ lanes.lane_string = <<"|", "|">>
    /\ lanes.count_left = 4 /\ lanes.count_right = 3
    /\ 2 \in trimmed.left_reads
    /\ trimmed.result = lanes.lane_string

\* C7: an all-placeholder lane string with count_left + count_right < length comes
\* back exactly count_left + count_right characters shorter.
C7_AllPlaceholdersTrimExactly ==
    ( /\ trimmed.called
      /\ AllPipes(lanes.lane_string)
      /\ lanes.count_left + lanes.count_right < Len(lanes.lane_string) )
    => Len(trimmed.result) = Len(lanes.lane_string) - (lanes.count_left + lanes.count_right)

C7_Witness ==
    /\ trimmed.called
    /\ lanes.lane_string = <<"|", "&", "|", "|">>
    /\ lanes.count_left = 1 /\ lanes.count_right = 2
    /\ trimmed.result = <<"&">>

\* the length of the edge's polyline in the direction of traversal
RECURSIVE PathLength(_, _)
PathLength(coordinate, k) ==
    IF k > Len(edge.geometry)
    THEN haversineDistance(coordinate,
             extractCoordinateFromNode(IF edge.traverse_in_reverse THEN edge.from_node
                                       ELSE edge.to_node))
    ELSE haversineDistance(coordinate, extractCoordinateFromNode(GeometryAt(k)))
             + PathLength(extractCoordinateFromNode(GeometryAt(k)), k + 1)

TotalLength ==
    PathLength(extractCoordinateFromNode(IF edge.traverse_in_reverse THEN edge.to_node
                                         ELSE edge.from_node), 1)

\* the cumulative distance of the returned coordinate along the polyline: the
\* distance to the start of the segment it lies on, plus its distance from there
ResultDistance ==
    walk.distance_to_current_coordinate + haversineDistance(walk.segment_start, walk.result)

\* the length of the segment the returned coordinate lies on
ResultSegment == walk.distance_to_next_coordinate - walk.distance_to_current_coordinate

\* C5, as claimed: for every edge the returned coordinate lies within one segment's
\* length of DESIRED_SEGMENT_LENGTH along the polyline, and not beyond the edge's end.
C5_WithinOneSegment ==
    walk.pc = "done" =>
        /\ abs(ResultDistance - DESIRED_SEGMENT_LENGTH) <= ResultSegment
        /\ ResultDistance <= TotalLength

\* C5, amended: for every edge whose polyline is at least DESIRED_SEGMENT_LENGTH long
\* the returned coordinate lies on its segment, within that segment's length of
\* DESIRED_SEGMENT_LENGTH; for a shorter edge it is the far endpoint, at the edge's
\* total length; in no case does it lie beyond the edge's end.
C5_WithinOneSegmentOfLongEdge ==
    walk.pc = "done" =>
        /\ TotalLength >= DESIRED_SEGMENT_LENGTH
           => /\ abs(ResultDistance - DESIRED_SEGMENT_LENGTH) <= ResultSegment
              /\ walk.distance_to_current_coordinate <= ResultDistance
              /\ ResultDistance <= walk.distance_to_next_coordinate
        /\ TotalLength < DESIRED_SEGMENT_LENGTH => ResultDistance = TotalLength
        /\ ResultDistance <= TotalLength

C5_Witness ==
    /\ walk.pc = "done"
    /\ edge.has_entry /\ edge.traverse_in_reverse
    /\ Len(edge.geometry) = 2
    /\ Len(walk.getFactor_calls) = 1
    /\ walk.distance_to_current_coordinate > 0
    /\ walk.distance_to_next_coordinate > DESIRED_SEGMENT_LENGTH
    /\ ResultDistance = DESIRED_SEGMENT_LENGTH

\* the direction modifier on the other side
Mirrored(m) ==
    CASE m = "SharpLeft" -> "SharpRight"
      [] m = "SharpRight" -> "SharpLeft"
      [] m = "Left" -> "Right"
      [] m = "Right" -> "Left"
      [] m = "SlightLeft" -> "SlightRight"
      [] m = "SlightRight" -> "SlightLeft"
      [] OTHER -> m

\* mirroring twice gives back the turn angle and the direction modifier
MirrorInvolution ==
    road.mirrors = 2
        => /\ road.current.angle = road.original.angle
           /\ road.current.direction_modifier = road.original.direction_modifier

\* C6, as claimed: mirror(mirror(road)) = road, and one mirror maps every angle a
\* other than 0 to 360 - a and swaps the left and right modifiers.
C6_MirrorEveryNonZeroAngle ==
    /\ MirrorInvolution
    /\ (road.mirrors >= 1 /\ road.previous.angle # 0)
       => /\ road.current.angle = 360 - road.previous.angle
          /\ road.current.direction_modifier = Mirrored(road.previous.direction_modifier)

\* C6, amended: for whole-degree angles, mirror(mirror(road)) = road, and one mirror
\* maps every angle a with 0 < a < 360 to 360 - a and swaps the left and right
\* modifiers; a road at angle 0 or 360 is returned unchanged.
C6_MirrorInsideCircle ==
    /\ MirrorInvolution
    /\ (road.mirrors >= 1 /\ road.previous.angle \notin {0, 360})
       => /\ road.current.angle = 360 - road.previous.angle
          /\ road.current.direction_modifier = Mirrored(road.previous.direction_modifier)
    /\ (road.mirrors >= 1 /\ road.previous.angle \in {0, 360})
       => road.current = road.previous

C6_Witness ==
    /\ road.mirrors = 2
    /\ road.original.angle = 30 /\ road.original.direction_modifier = "SlightRight"
    /\ road.previous.angle = 330 /\ road.previous.direction_modifier = "SlightLeft"
    /\ road.current = road.original

RoundaboutTypes ==
    {"EnterRoundabout", "EnterAndExitRoundabout", "EnterRotary", "EnterAndExitRotary",
     "EnterRoundaboutIntersection", "EnterAndExitRoundaboutIntersection",
     "EnterRoundaboutAtExit", "ExitRoundabout", "EnterRotaryAtExit", "ExitRotary",
     "EnterRoundaboutIntersectionAtExit", "ExitRoundaboutIntersection",
     "StayOnRoundabout"}

\* C8: whenever entersRoundabout or leavesRoundabout reports a turn type,
\* hasRoundaboutType reports it too, and it is one of the 13 roundabout types.
C8_RoundaboutPartition ==
    (roundabout.called /\ (roundabout.enters \/ roundabout.leaves))
        => /\ roundabout.has
           /\ road.current.type \in RoundaboutTypes
           /\ Cardinality(RoundaboutTypes) = 13

C8_Witness ==
    /\ roundabout.called
    /\ road.current.type = "ExitRoundaboutIntersection"
    /\ roundabout.leaves /\ ~roundabout.enters /\ roundabout.has

\* C9: canBeSeenAsFork(a, b) is true exactly when the priorities of a and b differ
\* by at most 1, and it is symmetric in its arguments.
C9_ForkSymmetric ==
    fork.called =>
        /\ fork.forward <=>
              (road_priority[classes.first + 1] - road_priority[classes.second + 1]
                  \in {-1, 0, 1})
        /\ fork.forward = fork.swapped

C9_Witness ==
    /\ fork.called
    /\ getPriority(classes.first) < getPriority(classes.second)
    /\ fork.forward /\ fork.swapped

\* C10: on every call of getFactor the distance to the current coordinate is below
\* DESIRED_SEGMENT_LENGTH, the distance to the next coordinate is at least
\* DESIRED_SEGMENT_LENGTH, and the segment is longer than 0.
C10_GetFactorWellOrdered ==
    walk.pc \in {"loop", "done"} =>
        \A i \in 1 .. Len(walk.getFactor_calls) :
            LET first_distance == walk.getFactor_calls[i][1]
                second_distance == walk.getFactor_calls[i][2]
            IN  /\ first_distance < DESIRED_SEGMENT_LENGTH
                /\ second_distance - first_distance > 0
                /\ second_distance >= DESIRED_SEGMENT_LENGTH

\* a call of getFactor after a segment of length 0
C10_Witness ==
    /\ walk.pc = "done"
    /\ Len(walk.getFactor_calls) = 1
    /\ Len(edge.geometry) = 2
    /\ edge.geometry[1] = edge.geometry[2]
    /\ walk.distance_to_current_coordinate > 0
====
